---- MODULE Spec2Model ----
(***************************************************************************)
(* Collocation solver for quasi-1D nozzle flow                             *)
(* (examples/jaxprop/nozzle_model_solver.py).                              *)
(*                                                                         *)
(* Numbers.  float64 values are modelled by extended rationals <<n, d>>:   *)
(* d > 0 and gcd(n, d) = 1 for a finite value, <<1, 0>> and <<-1, 0>> for  *)
(* +inf and -inf, <<0, 0>> for NaN.  Arithmetic is exact: rounding and     *)
(* the sign of zero are not modelled.  jnp.exp and jnp.log are taken in    *)
(* base 2 on powers of two, which keeps every value rational.              *)
(*                                                                         *)
(* Arrays are 1-based sequences: source index k is model index k + 1.      *)
(***************************************************************************)
EXTENDS Integers, Sequences, FiniteSets, TLC

(***************************************************************************)
(* Extended rational arithmetic (IEEE-like treatment of x/0, inf, NaN).    *)
(***************************************************************************)
Abs(a) == IF a < 0 THEN -a ELSE a

Sign(a) == IF a > 0 THEN 1 ELSE IF a < 0 THEN -1 ELSE 0

RECURSIVE GCD(_, _)
GCD(a, b) == IF b = 0 THEN a ELSE GCD(b, a % b)

Q(n, d) ==
  IF d = 0 THEN <<Sign(n), 0>>
  ELSE LET g == GCD(Abs(n), Abs(d))
           s == Sign(d)
       IN  <<(s * n) \div g, (s * d) \div g>>

NaN == <<0, 0>>
PInf == <<1, 0>>
NInf == <<-1, 0>>
Zero == <<0, 1>>
One == <<1, 1>>
Two == <<2, 1>>
Half == <<1, 2>>

IsNaN(a) == a = NaN
IsFinite(a) == a[2] # 0

FNeg(a) == <<-a[1], a[2]>>

\* sums over the least common denominator, to keep the integers small
FAdd(a, b) ==
  IF a[2] = 0 /\ b[2] = 0
  THEN (IF a = b THEN a ELSE NaN)
  ELSE IF a[2] = 0 THEN (IF b[2] = 0 THEN NaN ELSE a)
  ELSE IF b[2] = 0 THEN b
  ELSE LET g == GCD(a[2], b[2])
       IN  Q(a[1] * (b[2] \div g) + b[1] * (a[2] \div g), (a[2] \div g) * b[2])

FSub(a, b) == FAdd(a, FNeg(b))

\* products cancel common factors first, to keep the integers small
FMul(a, b) ==
  IF a[2] = 0 \/ b[2] = 0
  THEN <<Sign(a[1]) * Sign(b[1]), 0>>
  ELSE LET g1 == GCD(Abs(a[1]), b[2])
           g2 == GCD(Abs(b[1]), a[2])
       IN  Q((a[1] \div g1) * (b[1] \div g2), (a[2] \div g2) * (b[2] \div g1))

FRecip(a) ==
  IF a[1] < 0 THEN <<-a[2], -a[1]>> ELSE <<a[2], a[1]>>

FDiv(a, b) == FMul(a, FRecip(b))

\* IEEE comparisons: every comparison with NaN is false.
FEq(a, b) == ~IsNaN(a) /\ ~IsNaN(b) /\ a = b
FLt(a, b) == ~IsNaN(a) /\ ~IsNaN(b) /\ a # b /\ a[1] * b[2] < b[1] * a[2]
FLe(a, b) == FEq(a, b) \/ FLt(a, b)

FMax(a, b) == IF IsNaN(a) \/ IsNaN(b) THEN NaN ELSE IF FLt(a, b) THEN b ELSE a
FMin(a, b) == IF IsNaN(a) \/ IsNaN(b) THEN NaN ELSE IF FLt(b, a) THEN b ELSE a

\* (-1.0) ** k
MinusOnePow(k) == IF k % 2 = 0 THEN One ELSE FNeg(One)

RECURSIVE SumTo(_, _)
SumTo(v, k) == IF k = 0 THEN Zero ELSE FAdd(SumTo(v, k - 1), v[k])

\* jnp.sum over a vector
FSum(v) == SumTo(v, Len(v))

\* row i of a matrix applied to a vector: (M @ v)[i]
RowDot(M, v, i) == FSum([j \in 1..Len(v) |-> FMul(M[i][j], v[j])])

\* M @ v
MatVec(M, v) == [i \in 1..Len(M) |-> RowDot(M, v, i)]

(***************************************************************************)
(* chebyshev_lobatto_basis: nodes and differentiation matrix.              *)
(***************************************************************************)
\* cos(pi * k / N) where it is rational; N = 0 divides 0.0 by 0 and is NaN.
CosPiFrac(k, N) ==
  IF N = 0 THEN NaN
  ELSE IF k = 0 THEN One
  ELSE IF k = N THEN FNeg(One)
  ELSE IF 2 * k = N THEN Zero
  ELSE IF 3 * k = N THEN Half
  ELSE IF 3 * k = 2 * N THEN FNeg(Half)
  ELSE NaN

\* c = where((k == 0) | (k == N), 2.0, 1.0) * ((-1.0) ** k)
BasisC(k, N) == FMul(IF k = 0 \/ k = N THEN Two ELSE One, MinusOnePow(k))

\* D_hat = C / dX with dX = X - X.T + eye, X = tile(x_hat), C = outer(c, 1/c)
RawDhat(N, x_hat) ==
  [i \in 1..(N + 1) |-> [j \in 1..(N + 1) |->
     LET dX == FAdd(FSub(x_hat[j], x_hat[i]), IF i = j THEN One ELSE Zero)
         C == FMul(BasisC(i - 1, N), FDiv(One, BasisC(j - 1, N)))
     IN  FDiv(C, dX)]]

DiagCorrect_NoCorrection(Dh) == Dh

\* D_hat = D_hat - diag(sum(D_hat, axis=1))
DiagCorrect(Dh) ==
  [i \in 1..Len(Dh) |-> [j \in 1..Len(Dh) |->
     IF i = j THEN FSub(Dh[i][j], FSum(Dh[i])) ELSE Dh[i][j]]]

\* D = -(2.0 / (x2 - x1)) * D_hat
ScaleD(Dh, x1, x2) ==
  [i \in 1..Len(Dh) |-> [j \in 1..Len(Dh) |->
     FMul(FNeg(FDiv(Two, FSub(x2, x1))), Dh[i][j])]]

\* idx = arange(N + 1)[::-1]
ReverseIdx(n, i) == n + 1 - i

ReorderD_RowsOnly(Dm) ==
  [i \in 1..Len(Dm) |-> [j \in 1..Len(Dm) |-> Dm[ReverseIdx(Len(Dm), i)][j]]]

\* D = D[idx][:, idx]
ReorderD(Dm) ==
  [i \in 1..Len(Dm) |-> [j \in 1..Len(Dm) |->
     Dm[ReverseIdx(Len(Dm), i)][ReverseIdx(Len(Dm), j)]]]

ReorderX_RawOrder(x) == x

\* x = x[idx]
ReorderX(x) == [i \in 1..Len(x) |-> x[ReverseIdx(Len(x), i)]]

\* nodes and matrix in the raw Chebyshev ordering (x_hat = cos(pi k / N), so
\* the first raw node is x2), before the two reordering statements
ChebyshevRawOrder(N, x1, x2) ==
  LET x_hat == [i \in 1..(N + 1) |-> CosPiFrac(i - 1, N)]
      x == [i \in 1..(N + 1) |->
              FAdd(FMul(FMul(Half, FAdd(x_hat[i], One)), FSub(x2, x1)), x1)]
      D == ScaleD(DiagCorrect(RawDhat(N, x_hat)), x1, x2)
  IN  [x |-> x, D |-> D]

chebyshev_lobatto_basis(N, x1, x2) ==
  LET raw == ChebyshevRawOrder(N, x1, x2)
  IN  [x |-> ReorderX(raw.x), D |-> ReorderD(raw.D)]

(***************************************************************************)
(* chebyshev_lobatto_interpolate_and_derivative (scalar evaluation point). *)
(***************************************************************************)
\* w = where((k == 0) | (k == n), 0.5, 1.0) * ((-1.0) ** k)
BaryW(k, n) == FMul(IF k = 0 \/ k = n THEN Half ELSE One, MinusOnePow(k))

\* jnp.argmax(is_node): the first index whose flag is set (the first index if none)
ArgmaxFlag(flags) ==
  IF \E i \in 1..Len(flags) : flags[i]
  THEN CHOOSE i \in 1..Len(flags) : flags[i] /\ \A j \in 1..(i - 1) : ~flags[j]
  ELSE 1

at_node(x_nodes, y_nodes, is_node) ==
  LET n == Len(x_nodes) - 1
      idx == ArgmaxFlag(is_node)
      diff_ex == [j \in 1..(n + 1) |->
                    IF j = idx THEN One ELSE FSub(x_nodes[idx], x_nodes[j])]
      ydiff_ex == [j \in 1..(n + 1) |->
                    IF j = idx THEN Zero ELSE FSub(y_nodes[idx], y_nodes[j])]
      w_ex == [j \in 1..(n + 1) |-> IF j = idx THEN Zero ELSE BaryW(j - 1, n)]
      terms == [j \in 1..(n + 1) |->
                  FDiv(FMul(FDiv(w_ex[j], BaryW(idx - 1, n)), ydiff_ex[j]), diff_ex[j])]
  IN  [branch |-> "at_node", p |-> y_nodes[idx], dp |-> FSum(terms)]

generic(x_nodes, y_nodes, x) ==
  LET n == Len(x_nodes) - 1
      diff == [j \in 1..(n + 1) |-> FSub(x, x_nodes[j])]
      r == [j \in 1..(n + 1) |-> FDiv(BaryW(j - 1, n), diff[j])]
      S == FSum(r)
      Nm == FSum([j \in 1..(n + 1) |-> FMul(r[j], y_nodes[j])])
      p == FDiv(Nm, S)
      rp == [j \in 1..(n + 1) |-> FDiv(FNeg(BaryW(j - 1, n)), FMul(diff[j], diff[j]))]
      S1 == FSum(rp)
      N1 == FSum([j \in 1..(n + 1) |-> FMul(rp[j], y_nodes[j])])
  IN  [branch |-> "generic", p |-> p, dp |-> FDiv(FSub(N1, FMul(p, S1)), S)]

IsNodeFlags_Never(x_nodes, x) == [j \in 1..Len(x_nodes) |-> FALSE]

\* is_node = (x - x_nodes) == 0.0
IsNodeFlags(x_nodes, x) ==
  [j \in 1..Len(x_nodes) |-> FEq(FSub(x, x_nodes[j]), Zero)]

\* jax.lax.cond(jnp.any(is_node), at_node, generic)
chebyshev_lobatto_interpolate_and_derivative(x_nodes, y_nodes, x_eval) ==
  LET is_node == IsNodeFlags(x_nodes, x_eval)
  IN  IF \E j \in 1..Len(x_nodes) : is_node[j]
      THEN at_node(x_nodes, y_nodes, is_node)
      ELSE generic(x_nodes, y_nodes, x_eval)

(***************************************************************************)
(* State.  Three groups of variables, one per specification below; a       *)
(* specification leaves the other groups at their idle values.             *)
(***************************************************************************)
VARIABLES
  c_in,     \* spectral utilities: order N, interval [x1, x2], polynomial coefficients
  c_grid,   \* result of chebyshev_lobatto_basis, NoGrid before the call
  c_Dy,     \* D @ y for the nodal values y, <<>> before it is computed
  c_ev,     \* last result of chebyshev_lobatto_interpolate_and_derivative
  d_in,     \* solve_nozzle_model_collocation: the call's arguments
  d_pc,     \* position of the call in the function body
  d_grid,   \* x, D built at the top of the call
  d_fn,     \* residual_fn
  d_solvers,\* solver_warmup, solver_main
  d_log,    \* the opx.least_squares invocations made so far, in order
  d_out,    \* how the call ended: returned (out_data, solution) or raised
  d_repeat, \* further calls with the same arguments still to be made
  d_first,  \* what the previous call with these arguments did and returned
  r_in,     \* residual evaluation: z, the grid, the model and the physics output
  r_inlet,  \* result of get_residual_mach_inlet, <<>> before the call
  r_crit,   \* result of get_residual_mach_critical, <<>> before the call
  r_fmm,    \* what find_maximum_mach did inside the last critical residual
  l_pc,     \* position in the pack / unpack round trip
  l_in,     \* the three sequences u, ln_d, ln_p to pack and their length n
  l_z,      \* the flat state vector, <<>> before packing
  l_out,    \* result of split_z on the flat vector
  s_heap,   \* the parameter records created so far, in order of creation
  s_ref,    \* the record the name params_model is bound to (0: none)
  s_calls,  \* number of replace_param calls of the sweep so far
  s_last,   \* arguments and outcome of the last replace_param call
  m_pc,     \* position in transonic_nozzle_single_phase
  m_in,     \* Mach window, inlet Mach number and Mach gradient of the flow
  m_crit,   \* final state of the first marching pass: x_crit, y_crit
  m_lin,    \* f_star, Jy, Jt and the point they were taken at
  m_eval,   \* last evaluation of ode_full_transonic in the second pass
  m_steps,  \* evaluations of the second pass so far
  n_pc,     \* position of the root_find call inside find_maximum_mach
  n_in,     \* its max_steps argument
  n_steps,  \* Newton iterations made so far
  n_result, \* sol.result once the call is over
  f_pc,     \* position in initialize_flowfield
  f_in,     \* its arguments: num_points, p0_in, d0_in, Ma_min, Ma_max
  f_queries,\* the get_props calls made so far, each with the backend's answer
  f_z       \* the returned initial guess, <<>> before the return

c_vars == <<c_in, c_grid, c_Dy, c_ev>>

d_vars == <<d_in, d_pc, d_grid, d_fn, d_solvers, d_log, d_out, d_repeat, d_first>>

r_vars == <<r_in, r_inlet, r_crit, r_fmm>>

l_vars == <<l_pc, l_in, l_z, l_out>>

s_vars == <<s_heap, s_ref, s_calls, s_last>>

m_vars == <<m_pc, m_in, m_crit, m_lin, m_eval, m_steps>>

n_vars == <<n_pc, n_in, n_steps, n_result>>

f_vars == <<f_pc, f_in, f_queries, f_z>>

\* what each group of operations leaves alone
outside_c == <<d_vars, r_vars, l_vars, s_vars, m_vars, n_vars, f_vars>>

outside_d == <<c_vars, r_vars, l_vars, s_vars, m_vars, n_vars, f_vars>>

outside_r == <<c_vars, d_vars, l_vars, s_vars, m_vars, n_vars, f_vars>>

outside_l == <<c_vars, d_vars, r_vars, s_vars, m_vars, n_vars, f_vars>>

outside_s == <<c_vars, d_vars, r_vars, l_vars, m_vars, n_vars, f_vars>>

outside_m == <<c_vars, d_vars, r_vars, l_vars, s_vars, n_vars, f_vars>>

outside_n == <<c_vars, d_vars, r_vars, l_vars, s_vars, m_vars, f_vars>>

outside_f == <<c_vars, d_vars, r_vars, l_vars, s_vars, m_vars, n_vars>>

vars == <<c_vars, d_vars, r_vars, l_vars, s_vars, m_vars, n_vars, f_vars>>

(***************************************************************************)
(* Specification SpecCheb: the spectral utilities on polynomial data.      *)
(***************************************************************************)
MaxCoef == 1

\* orders whose Chebyshev-Lobatto nodes are rational
Orders == 1..3

Intervals == {<<0, 1>>, <<0, 2>>, <<1, 3>>}

CoefSet == (-MaxCoef)..MaxCoef

NoGrid == [x |-> <<>>, D |-> <<>>]

NoEval == [x |-> NaN, branch |-> "none", p |-> NaN, dp |-> NaN]

\* idle value of the inputs while another specification runs
IdleChebIn == [N |-> 1, x1 |-> 0, x2 |-> 1, coef |-> <<0, 0>>]

RECURSIVE Horner(_, _, _)
Horner(cs, k, x) ==
  IF k > Len(cs) THEN Zero
  ELSE FAdd(Q(cs[k], 1), FMul(x, Horner(cs, k + 1, x)))

\* p(x) = cs[1] + cs[2] x + cs[3] x^2 + ...
PolyEval(cs, x) == Horner(cs, 1, x)

\* coefficients of the analytic derivative p'
PolyDeriv(cs) == [k \in 1..(Len(cs) - 1) |-> k * cs[k + 1]]

\* the caller's nodal data: the polynomial sampled at the nodes
NodalValues(cs, x) == [i \in 1..Len(x) |-> PolyEval(cs, x[i])]

c_y == NodalValues(c_in.coef, c_grid.x)

\* evaluation points: every node, every midpoint of two neighbours, one point outside
EvalPoints(x) ==
  {x[i] : i \in 1..Len(x)}
    \cup {FMul(Half, FAdd(x[i], x[i + 1])) : i \in 1..(Len(x) - 1)}
    \cup {FAdd(x[Len(x)], One)}

\* The program is single-threaded: the utilities are exercised on their own
\* only while no solve call and no residual evaluation is in progress.
ChebStandalone == d_pc = "idle" /\ r_in = [N |-> 0]

\* x, D = chebyshev_lobatto_basis(N, x1, x2)
CBuildBasis ==
  /\ ChebStandalone
  /\ c_grid = NoGrid
  /\ c_grid' = chebyshev_lobatto_basis(c_in.N, Q(c_in.x1, 1), Q(c_in.x2, 1))
  /\ UNCHANGED <<c_in, c_Dy, c_ev>>
  /\ UNCHANGED outside_c

\* Dx @ u on the nodal data
CApplyD ==
  /\ ChebStandalone
  /\ c_grid # NoGrid
  /\ c_Dy = <<>>
  /\ c_Dy' = MatVec(c_grid.D, c_y)
  /\ UNCHANGED <<c_in, c_grid, c_ev>>
  /\ UNCHANGED outside_c

\* p, dp = chebyshev_lobatto_interpolate_and_derivative(x_nodes, y_nodes, x_eval)
\* (a pure function: one evaluation per behaviour, at any of the points)
CInterpolate ==
  /\ ChebStandalone
  /\ c_grid # NoGrid
  /\ c_ev = NoEval
  /\ \E xe \in EvalPoints(c_grid.x) :
       LET r == chebyshev_lobatto_interpolate_and_derivative(c_grid.x, c_y, xe)
       IN  c_ev' = [x |-> xe, branch |-> r.branch, p |-> r.p, dp |-> r.dp]
  /\ UNCHANGED <<c_in, c_grid, c_Dy>>
  /\ UNCHANGED outside_c

ChebNext == CBuildBasis \/ CApplyD \/ CInterpolate

(***************************************************************************)
(* Specification SpecSolve: one call of solve_nozzle_model_collocation.    *)
(* opx.least_squares is a library call: its result code and the iterate it *)
(* returns are chosen freely.                                              *)
(***************************************************************************)
MaxIterate == 2

\* iterates of the nonlinear solve, by identity; 0 is the caller's initial guess
Iterates == 0..MaxIterate

SolveModes == {"mach_in", "mach_crit", "mach_out"}

NodeCounts == 0..3

SolverNames == {"GaussNewton", "Dogleg", "LevenbergMarquardt", "Newton"}

\* result codes of the least-squares solver
SolverResults == {"successful", "max_steps_reached", "nonlinear_divergence"}

SOLVER_MAPPING == {"GaussNewton", "Dogleg", "LevenbergMarquardt"}

\* idle value of the arguments while another specification runs
IdleDriverIn ==
  [solve_mode |-> "mach_crit", num_points |-> 1, method |-> "GaussNewton",
   warmup_method |-> "LevenbergMarquardt", length |-> 1, initial_guess |-> 0]

NoSolvers == [warmup |-> "none", main |-> "none"]

NoOutcome == [kind |-> "none", error |-> "none", at |-> "none",
              evaluated_at |-> -1, status |-> "none"]

Raised(err, where) == [kind |-> "raised", error |-> err, at |-> where,
                       evaluated_at |-> -1, status |-> "none"]

SelectResidualFn_Fallback(mode) ==
  IF mode = "mach_in" THEN "get_residual_mach_inlet"
  ELSE "get_residual_mach_critical"

\* if solve_mode == "mach_in" ... elif "mach_crit" ... else raise ValueError
SelectResidualFn(mode) ==
  IF mode = "mach_in" THEN "get_residual_mach_inlet"
  ELSE IF mode = "mach_crit" THEN "get_residual_mach_critical"
  ELSE "ValueError"

\* throw=False is passed to the warmup call
WarmupThrow == FALSE

\* the main call passes no throw argument: the library's default, True, applies
MainThrow == TRUE

\* least_squares raises when asked to throw and the result is not successful
LeastSquaresRaises(throw, result) == throw /\ result # "successful"

WarmupInvocations == SelectSeq(d_log, LAMBDA e : e.stage = "warmup")

MainInvocations == SelectSeq(d_log, LAMBDA e : e.stage = "main")

MainInitialGuess_CallerGuess == d_in.initial_guess

\* y0=solution_warmup.value
MainInitialGuess == d_log[Len(d_log)].value

MainResidualFn_OtherMode ==
  IF d_fn = "get_residual_mach_inlet" THEN "get_residual_mach_critical"
  ELSE "get_residual_mach_inlet"

\* fn=residual_fn in the main call: the function selected before the warmup
MainResidualFn == d_fn

\* no earlier call
NoFirst == [pc |-> "none", grid |-> NoGrid, fn |-> "none", solvers |-> NoSolvers,
            log |-> <<>>, out |-> NoOutcome]

\* everything a call did: where it ended, its locals, its solver invocations
\* and its outcome
CallRecord == [pc |-> d_pc, grid |-> d_grid, fn |-> d_fn, solvers |-> d_solvers,
               log |-> d_log, out |-> d_out]

WarmupInitialGuess_FromPreviousCall ==
  IF d_first = NoFirst THEN d_in.initial_guess ELSE d_first.out.evaluated_at

\* y0=initial_guess in the warmup call: the caller's argument
WarmupInitialGuess == d_in.initial_guess

\* x, D = chebyshev_lobatto_basis(params_solver.num_points, 0.0, params_model.length)
DBuildBasis ==
  /\ d_pc = "basis"
  /\ d_grid' = chebyshev_lobatto_basis(d_in.num_points, Zero, Q(d_in.length, 1))
  /\ d_pc' = "select"
  /\ UNCHANGED <<d_in, d_fn, d_solvers, d_log, d_out>>
  /\ UNCHANGED <<d_repeat, d_first>>
  /\ UNCHANGED outside_d

\* the solve_mode selection
DSelectResidual ==
  /\ d_pc = "select"
  /\ LET fn == SelectResidualFn(d_in.solve_mode)
     IN  IF fn = "ValueError"
         THEN /\ d_pc' = "raised"
              /\ d_out' = Raised("ValueError", "select")
              /\ UNCHANGED d_fn
         ELSE /\ d_pc' = "solvers"
              /\ d_fn' = fn
              /\ UNCHANGED d_out
  /\ UNCHANGED <<d_in, d_grid, d_solvers, d_log>>
  /\ UNCHANGED <<d_repeat, d_first>>
  /\ UNCHANGED outside_d

ConstructedBeforeWarmup_WarmupOnly(in) == {in.warmup_method}

\* the names make_solver is called with before the first opx.least_squares
ConstructedBeforeWarmup(in) == {in.warmup_method, in.method}

\* solver_warmup = make_solver(warmup_method); solver_main = make_solver(method)
DMakeSolvers ==
  /\ d_pc = "solvers"
  /\ IF \E name \in ConstructedBeforeWarmup(d_in) : name \notin SOLVER_MAPPING
     THEN /\ d_pc' = "raised"
          /\ d_out' = Raised("KeyError", "solvers")
          /\ UNCHANGED d_solvers
     ELSE /\ d_pc' = "warmup"
          /\ d_solvers' = [warmup |-> d_in.warmup_method, main |-> d_in.method]
          /\ UNCHANGED d_out
  /\ UNCHANGED <<d_in, d_grid, d_fn, d_log>>
  /\ UNCHANGED <<d_repeat, d_first>>
  /\ UNCHANGED outside_d

\* solution_warmup = opx.least_squares(..., y0=initial_guess, throw=False)
DWarmupSolve ==
  /\ d_pc = "warmup"
  /\ \E res \in SolverResults, val \in Iterates :
       /\ d_log' = Append(d_log, [stage |-> "warmup", fn |-> d_fn, x |-> d_grid.x,
                                  solver |-> d_solvers.warmup,
                                  y0 |-> WarmupInitialGuess,
                                  result |-> res, value |-> val])
       /\ IF LeastSquaresRaises(WarmupThrow, res)
          THEN /\ d_pc' = "raised"
               /\ d_out' = Raised("RuntimeError", "warmup")
          ELSE /\ d_pc' = "main"
               /\ UNCHANGED d_out
  /\ UNCHANGED <<d_in, d_grid, d_fn, d_solvers>>
  /\ UNCHANGED <<d_repeat, d_first>>
  /\ UNCHANGED outside_d

\* solution = opx.least_squares(..., y0=solution_warmup.value)
DMainSolve ==
  /\ d_pc = "main"
  /\ \E res \in SolverResults, val \in Iterates :
       /\ d_log' = Append(d_log, [stage |-> "main", fn |-> MainResidualFn,
                                  x |-> d_grid.x,
                                  solver |-> d_solvers.main,
                                  y0 |-> MainInitialGuess,
                                  result |-> res, value |-> val])
       /\ IF LeastSquaresRaises(MainThrow, res)
          THEN /\ d_pc' = "raised"
               /\ d_out' = Raised("RuntimeError", "main")
          ELSE /\ d_pc' = "evaluate"
               /\ UNCHANGED d_out
  /\ UNCHANGED <<d_in, d_grid, d_fn, d_solvers>>
  /\ UNCHANGED <<d_repeat, d_first>>
  /\ UNCHANGED outside_d

\* out_data = evaluate_ode_rhs(x, solution.value, params_model); return out_data, solution
DEvaluateReturn ==
  /\ d_pc = "evaluate"
  /\ d_pc' = "returned"
  /\ d_out' = [kind |-> "returned", error |-> "none", at |-> "none",
               evaluated_at |-> d_log[Len(d_log)].value,
               status |-> d_log[Len(d_log)].result]
  /\ UNCHANGED <<d_in, d_grid, d_fn, d_solvers, d_log>>
  /\ UNCHANGED <<d_repeat, d_first>>
  /\ UNCHANGED outside_d

\* the caller calls the function again with the same arguments: the locals of
\* the finished call are gone, the new call starts at the top of the body
DSecondCall ==
  /\ d_pc \in {"returned", "raised"}
  /\ d_repeat > 0
  /\ d_repeat' = d_repeat - 1
  /\ d_first' = CallRecord
  /\ d_pc' = "basis"
  /\ d_grid' = NoGrid
  /\ d_fn' = "none"
  /\ d_solvers' = NoSolvers
  /\ d_log' = <<>>
  /\ d_out' = NoOutcome
  /\ UNCHANGED d_in
  /\ UNCHANGED outside_d

TwiceNext ==
  \/ DBuildBasis
  \/ DSelectResidual
  \/ DMakeSolvers
  \/ DWarmupSolve
  \/ DMainSolve
  \/ DEvaluateReturn
  \/ DSecondCall

DriverNext ==
  \/ DBuildBasis
  \/ DSelectResidual
  \/ DMakeSolvers
  \/ DWarmupSolve
  \/ DMainSolve
  \/ DEvaluateReturn

(***************************************************************************)
(* Residual functions and find_maximum_mach.                               *)
(***************************************************************************)
RECURSIVE Pow2(_)
Pow2(k) == IF k = 0 THEN 1 ELSE 2 * Pow2(k - 1)

\* jnp.exp in base 2, on integer arguments (NaN elsewhere on finite values)
FExp(a) ==
  IF a[2] = 1
  THEN (IF a[1] >= 0 THEN <<Pow2(a[1]), 1>> ELSE <<1, Pow2(-a[1])>>)
  ELSE IF a = PInf THEN PInf
  ELSE IF a = NInf THEN Zero
  ELSE NaN

RECURSIVE Log2Pos(_, _)
Log2Pos(n, d) ==
  IF n = d THEN Zero
  ELSE IF n >= 2 * d THEN FAdd(Log2Pos(n, 2 * d), One)
  ELSE IF 2 * n <= d THEN FSub(Log2Pos(2 * n, d), One)
  ELSE NaN

\* jnp.log in base 2, on powers of two; log(0) = -inf, log of a negative is NaN
FLog(a) ==
  IF IsNaN(a) \/ a[1] < 0 THEN NaN
  ELSE IF a = Zero THEN NInf
  ELSE IF a = PInf THEN PInf
  ELSE Log2Pos(a[1], a[2])

\* z[a:b]
PySlice(z, a, b) ==
  LET hi == IF b < Len(z) THEN b ELSE Len(z)
  IN  [i \in 1..(IF hi > a THEN hi - a ELSE 0) |-> z[a + i]]

split_z_SharedTail(z, num_points) ==
  [u |-> PySlice(z, 0, num_points),
   ln_d |-> PySlice(z, num_points, 2 * num_points),
   ln_p |-> PySlice(z, num_points, 2 * num_points)]

split_z(z, num_points) ==
  [u |-> PySlice(z, 0, num_points),
   ln_d |-> PySlice(z, num_points, 2 * num_points),
   ln_p |-> PySlice(z, 2 * num_points, 3 * num_points)]

\* The per-node physics (nozzle_single_phase_core) is an opaque function of the
\* call's arguments: its answer for (x, z, args) is fixed in the initial state.
evaluate_ode_rhs(x, z, args) == r_in.out

\* v.at[0].set(val)
AtSet0(v, val) == [v EXCEPT ![1] = val]

AtSetLast(v, val) == [v EXCEPT ![Len(v)] = val]

get_residual_mach_inlet_LastNode(z, params) ==
  LET n == Len(params.x)
      s == split_z(z, n)
      d == [i \in 1..n |-> FExp(s.ln_d[i])]
      p == [i \in 1..n |-> FExp(s.ln_p[i])]
      out == evaluate_ode_rhs(params.x, z, params.model)
      R_u == [i \in 1..n |-> FSub(RowDot(params.Dx, s.u, i),
                                  FDiv(out.N[i][1], out.D[i]))]
      R_d == [i \in 1..n |-> FSub(RowDot(params.Dx, s.ln_d, i),
                                  FDiv(FDiv(out.N[i][2], out.D[i]), d[i]))]
      R_p == [i \in 1..n |-> FSub(RowDot(params.Dx, s.ln_p, i),
                                  FDiv(FDiv(out.N[i][3], out.D[i]), p[i]))]
  IN  AtSetLast(R_u, FSub(params.model.Ma_in, out.Ma[1]))
        \o AtSetLast(R_d, FLog(FDiv(params.model.d0_in, out.d0[1])))
        \o AtSetLast(R_p, FLog(FDiv(params.model.p0_in, out.p0[1])))

get_residual_mach_inlet(z, params) ==
  LET n == Len(params.x)
      s == split_z(z, n)
      d == [i \in 1..n |-> FExp(s.ln_d[i])]
      p == [i \in 1..n |-> FExp(s.ln_p[i])]
      out == evaluate_ode_rhs(params.x, z, params.model)
      R_u == [i \in 1..n |-> FSub(RowDot(params.Dx, s.u, i),
                                  FDiv(out.N[i][1], out.D[i]))]
      R_d == [i \in 1..n |-> FSub(RowDot(params.Dx, s.ln_d, i),
                                  FDiv(FDiv(out.N[i][2], out.D[i]), d[i]))]
      R_p == [i \in 1..n |-> FSub(RowDot(params.Dx, s.ln_p, i),
                                  FDiv(FDiv(out.N[i][3], out.D[i]), p[i]))]
  IN  AtSet0(R_u, FSub(params.model.Ma_in, out.Ma[1]))
        \o AtSet0(R_d, FLog(FDiv(params.model.d0_in, out.d0[1])))
        \o AtSet0(R_p, FLog(FDiv(params.model.p0_in, out.p0[1])))

\* alpha = 50.0
alpha == 50

RECURSIVE MaxTo(_, _)
MaxTo(v, k) == IF k = 1 THEN v[1] ELSE FMax(MaxTo(v, k - 1), v[k])

\* jnp.max over a vector
FMaxOf(v) == MaxTo(v, Len(v))

\* x0 = sum(softmax(alpha * (y_nodes - max(y_nodes))) * x_nodes)
SoftArgmax(x_nodes, y_nodes) ==
  LET ymax == FMaxOf(y_nodes)
      e == [i \in 1..Len(y_nodes) |-> FExp(FMul(Q(alpha, 1), FSub(y_nodes[i], ymax)))]
      w == [i \in 1..Len(y_nodes) |-> FDiv(e[i], FSum(e))]
  IN  FSum([i \in 1..Len(x_nodes) |-> FMul(w[i], x_nodes[i])])

\* stands for the largest finite float64
FloatMax == Q(1000000, 1)

NanToNum_AllToGuess(a, nanv) == IF IsFinite(a) THEN a ELSE nanv

\* jnp.nan_to_num(a, nan=nanv): NaN -> nanv, +inf/-inf -> largest/smallest finite
NanToNum(a, nanv) ==
  IF IsNaN(a) THEN nanv
  ELSE IF a = PInf THEN FloatMax
  ELSE IF a = NInf THEN FNeg(FloatMax)
  ELSE a

Clip_OneTooWide(a, lo, hi) == FMin(FMax(a, FSub(lo, One)), FAdd(hi, One))

\* jnp.clip(a, lo, hi)
Clip(a, lo, hi) == FMin(FMax(a, lo), hi)

find_maximum_mach_AtRawNewton(x_nodes, y_nodes, newton_value) ==
  LET x1 == x_nodes[1]
      x2 == x_nodes[Len(x_nodes)]
      x0 == SoftArgmax(x_nodes, y_nodes)
      x_star == Clip(NanToNum(newton_value, x0), x1, x2)
      r == chebyshev_lobatto_interpolate_and_derivative(x_nodes, y_nodes, newton_value)
  IN  [x0 |-> x0, newton |-> newton_value, x_star |-> x_star, p_star |-> r.p]

\* newton_value is sol.value of opx.root_find (a library call, success flag ignored)
find_maximum_mach(x_nodes, y_nodes, newton_value) ==
  LET x1 == x_nodes[1]
      x2 == x_nodes[Len(x_nodes)]
      x0 == SoftArgmax(x_nodes, y_nodes)
      x_star == Clip(NanToNum(newton_value, x0), x1, x2)
      r == chebyshev_lobatto_interpolate_and_derivative(x_nodes, y_nodes, x_star)
  IN  [x0 |-> x0, newton |-> newton_value, x_star |-> x_star, p_star |-> r.p]

\* values sol.value may take: any node, the guess, the middle of the domain,
\* points outside the domain, and the non-finite values
NewtonOutcomes(x_nodes, y_nodes) ==
  {x_nodes[i] : i \in 1..Len(x_nodes)}
    \cup {SoftArgmax(x_nodes, y_nodes),
          FMul(Half, FAdd(x_nodes[1], x_nodes[Len(x_nodes)])),
          FSub(x_nodes[1], One), FAdd(x_nodes[Len(x_nodes)], One),
          NaN, PInf, NInf}

get_residual_mach_critical_WrongRatio(z, params, newton_value) ==
  LET n == Len(params.x)
      s == split_z(z, n)
      d == [i \in 1..n |-> FExp(s.ln_d[i])]
      p == [i \in 1..n |-> FExp(s.ln_p[i])]
      out == evaluate_ode_rhs(params.x, z, params.model)
      R_u == [i \in 1..n |-> FSub(RowDot(params.Dx, s.u, i),
                                  FDiv(out.N[i][1], out.D[i]))]
      R_d == [i \in 1..n |-> FSub(RowDot(params.Dx, s.ln_d, i),
                                  FDiv(FDiv(out.N[i][2], out.D[i]), d[i]))]
      R_p == [i \in 1..n |-> FSub(RowDot(params.Dx, s.ln_p, i),
                                  FDiv(FDiv(out.N[i][3], out.D[i]), p[i]))]
      m == find_maximum_mach(params.x, out.Ma, newton_value)
  IN  AtSet0(R_u, FSub(params.model.Ma_target, m.p_star))
        \o AtSet0(R_d, FLog(FDiv(params.model.d0_in, out.d0[1])))
        \o AtSet0(R_p, FLog(FDiv(params.model.d0_in, out.d0[1])))

get_residual_mach_critical(z, params, newton_value) ==
  LET n == Len(params.x)
      s == split_z(z, n)
      d == [i \in 1..n |-> FExp(s.ln_d[i])]
      p == [i \in 1..n |-> FExp(s.ln_p[i])]
      out == evaluate_ode_rhs(params.x, z, params.model)
      R_u == [i \in 1..n |-> FSub(RowDot(params.Dx, s.u, i),
                                  FDiv(out.N[i][1], out.D[i]))]
      R_d == [i \in 1..n |-> FSub(RowDot(params.Dx, s.ln_d, i),
                                  FDiv(FDiv(out.N[i][2], out.D[i]), d[i]))]
      R_p == [i \in 1..n |-> FSub(RowDot(params.Dx, s.ln_p, i),
                                  FDiv(FDiv(out.N[i][3], out.D[i]), p[i]))]
      m == find_maximum_mach(params.x, out.Ma, newton_value)
  IN  AtSet0(R_u, FSub(params.model.Ma_target, m.p_star))
        \o AtSet0(R_d, FLog(FDiv(params.model.d0_in, out.d0[1])))
        \o AtSet0(R_p, FLog(FDiv(params.model.p0_in, out.p0[1])))

(***************************************************************************)
(* Specification SpecResid: both residual functions on the same arguments. *)
(***************************************************************************)
ResidOrders == 1..2

Const(n, v) == [i \in 1..n |-> v]

\* Mach numbers, spaced so that alpha * (y - max(y)) is an integer
MachValues == {Q(49, 50), One}

\* flat, rising, falling and peaked profiles
MachProfiles(n) ==
  {Const(n, One),
   [i \in 1..n |-> Q(50 - (n - i), 50)],
   [i \in 1..n |-> Q(51 - i, 50)],
   [i \in 1..n |-> IF i = 2 THEN One ELSE Q(49, 50)]}


\* outputs of the per-node physics: N (n x 3), D, Ma, d0, p0
PhysicsOutputs(n) ==
  { [N |-> Nall, D |-> [i \in 1..n |-> Q(i, 1)], Ma |-> Ma,
     d0 |-> Const(n, d0), p0 |-> Const(n, p0)] :
      Nall \in {Const(n, <<Zero, Zero, Zero>>),
                [i \in 1..n |-> <<Q(i, 1), Two, FNeg(One)>>]},
      Ma \in MachProfiles(n),
      d0 \in {One, Two},
      p0 \in {One, Two} }

ModelParams ==
  [Ma_in : MachValues, Ma_target : {One}, d0_in : {One, Two}, p0_in : {One}]

StateVectors(n) ==
  { u \o ln_d \o ln_p :
      u \in {Const(n, Zero), [i \in 1..n |-> Q(i, 1)]},
      ln_d \in {Const(n, Zero), [i \in 1..n |-> Q(i - 1, 1)]},
      ln_p \in {[i \in 1..n |-> Q(1 - i, 1)]} }

\* idle value of the arguments while another specification runs
IdleResidIn == [N |-> 0]

NoFmm == [x0 |-> NaN, newton |-> NaN, x_star |-> NaN, p_star |-> NaN]

\* residual_fn(z, residual_args) with residual_fn = get_residual_mach_inlet
RCallInlet ==
  /\ r_in.N > 0
  /\ r_inlet = <<>>
  /\ r_inlet' = get_residual_mach_inlet(r_in.z, r_in)
  /\ UNCHANGED <<r_in, r_crit, r_fmm>>
  /\ UNCHANGED outside_r

\* residual_fn(z, residual_args) with residual_fn = get_residual_mach_critical
RCallCritical ==
  /\ r_in.N > 0
  /\ r_crit = <<>>
  /\ \E nv \in NewtonOutcomes(r_in.x, r_in.out.Ma) :
       /\ r_crit' = get_residual_mach_critical(r_in.z, r_in, nv)
       /\ r_fmm' = find_maximum_mach(r_in.x, r_in.out.Ma, nv)
  /\ UNCHANGED <<r_in, r_inlet>>
  /\ UNCHANGED outside_r

ResidNext == RCallInlet \/ RCallCritical

(***************************************************************************)
(* Specification SpecLayout: packing three sequences into the flat state   *)
(* vector and splitting it again.                                          *)
(***************************************************************************)
LayoutLens == 0..3

LayoutValues == {Zero, One}

IdleLayoutIn == [n |-> 0, u |-> <<>>, ln_d |-> <<>>, ln_p |-> <<>>]

NoSplit == [u |-> <<>>, ln_d |-> <<>>, ln_p |-> <<>>]

\* jnp.concatenate(parts)
RECURSIVE concatenate(_)
concatenate(parts) ==
  IF parts = <<>> THEN <<>> ELSE Head(parts) \o concatenate(Tail(parts))

\* z = jnp.concatenate([v, ln_d, ln_p])
LPack ==
  /\ l_pc = "start"
  /\ l_z' = concatenate(<<l_in.u, l_in.ln_d, l_in.ln_p>>)
  /\ l_pc' = "packed"
  /\ UNCHANGED <<l_in, l_out>>
  /\ UNCHANGED outside_l

\* u, ln_d, ln_p = split_z(z, n)
LSplit ==
  /\ l_pc = "packed"
  /\ l_out' = split_z(l_z, l_in.n)
  /\ l_pc' = "split"
  /\ UNCHANGED <<l_in, l_z>>
  /\ UNCHANGED outside_l

LayoutNext == LPack \/ LSplit

(***************************************************************************)
(* Specification SpecSweep: a parameter sweep that calls replace_param     *)
(* repeatedly.  Records live in a heap; a name holds a reference.          *)
(***************************************************************************)
MaxSweep == 3

\* the array-valued fields of NozzleParams that the sweeps touch or read
ParamFields == {"p0_in", "d0_in", "Ma_in", "Ma_target"}

\* field names a caller may pass
FieldNames == ParamFields \cup {"no_such_field"}

PyFloat(v) == [kind |-> "float", val |-> v]

Array(v) == [kind |-> "array", val |-> v]

\* jnp.asarray(value): an array holding the same number
asarray(value) == Array(value.val)

\* values a sweep passes: Python floats and elements of an array
SweepValues == {PyFloat(Two), Array(Two), Array(Q(3, 1))}

NoCall == [obj |-> 0, field |-> "none", value |-> PyFloat(NaN),
           result |-> 0, error |-> "none"]

\* eqx.tree_at(where, pytree, replace=...): out of place, a new record that
\* differs from the given one at the selected leaf
tree_at(heap, ref, field, replace) ==
  [heap |-> Append(heap, [heap[ref] EXCEPT ![field] = replace]),
   ref |-> Len(heap) + 1]

replace_param_InPlace(heap, ref, field, value) ==
  [heap |-> [heap EXCEPT ![ref][field] = asarray(value)], ref |-> ref]

replace_param(heap, ref, field, value) ==
  tree_at(heap, ref, field, asarray(value))

\* params_model = replace_param(params_model, field, value)
SReplaceParam ==
  /\ s_ref > 0
  /\ s_last.error = "none"
  /\ s_calls < MaxSweep
  /\ \E field \in ParamFields, value \in SweepValues :
       LET r == replace_param(s_heap, s_ref, field, value)
       IN  /\ s_heap' = r.heap
           /\ s_ref' = r.ref
           /\ s_last' = [obj |-> s_ref, field |-> field, value |-> value,
                         result |-> r.ref, error |-> "none"]
  /\ s_calls' = s_calls + 1
  /\ UNCHANGED outside_s

\* getattr(o, field) on a name that is no field raises; nothing is created
SReplaceUnknownField ==
  /\ s_ref > 0
  /\ s_last.error = "none"
  /\ s_calls < MaxSweep
  /\ \E field \in FieldNames \ ParamFields, value \in SweepValues :
       s_last' = [obj |-> s_ref, field |-> field, value |-> value,
                  result |-> 0, error |-> "AttributeError"]
  /\ s_calls' = s_calls + 1
  /\ UNCHANGED <<s_heap, s_ref>>
  /\ UNCHANGED outside_s

SweepNext == SReplaceParam \/ SReplaceUnknownField

(***************************************************************************)
(* Specification SpecMarch: transonic_nozzle_single_phase after the        *)
(* collocation solve: first marching pass up to the Mach event,            *)
(* linearisation at its final state, second pass with the blended RHS.     *)
(* The flow along the first pass has Mach number Ma_in + slope * x and     *)
(* speed of sound 1; the integrator and the per-point physics are library  *)
(* calls whose outputs are drawn from small sets.                          *)
(***************************************************************************)
MaxMarchSteps == 2

\* t1 of the first pass
FirstPassT1 == Q(1000, 1)

\* Ma_start = 1.001
Ma_start == Q(1001, 1000)

MarchMach ==
  {Q(9, 10), Q(19, 20), Q(39, 40), One, Ma_start, Q(101, 100), Q(41, 40),
   Q(21, 20), Q(11, 10)}

RhsSamples == {<<One, Zero, FNeg(One)>>, <<Two, One, Zero>>}

JySamples ==
  {[i \in 1..3 |-> [j \in 1..3 |-> Zero]],
   [i \in 1..3 |-> [j \in 1..3 |-> IF i = j THEN One ELSE Zero]]}

IdleMarchIn == [Ma_low |-> NaN, Ma_high |-> NaN, Ma_in |-> NaN, slope |-> NaN]

NoCrit == [x |-> NaN, y |-> <<>>, Ma |-> NaN, event |-> FALSE]

NoLin == [f_star |-> <<>>, Jy |-> <<>>, Jt |-> <<>>, x |-> NaN, y |-> <<>>]

NoMarchEval ==
  [t |-> NaN, y |-> <<>>, Ma |-> NaN, w |-> NaN, in_window |-> FALSE,
   rhs |-> <<>>, rhs_lin |-> <<>>, rhs_blend |-> <<>>]

\* the state on the first-pass trajectory at position x: y = [v, rho, p]
TrajectoryState(in, x) == <<FAdd(in.Ma_in, FMul(in.slope, x)), One, One>>

\* a = args.fluid.get_props(DmassP_INPUTS, rho, p)["a"]
SoundSpeed(rho, p) == One

mach_event_cond_Sonic(y, args) ==
  LET Ma == FDiv(y[1], SoundSpeed(y[2], y[3]))
  IN  FSub(FMul(Ma, Ma), One)

\* _mach_event_cond: Ma_sqr - args.Ma_low**2
mach_event_cond(y, args) ==
  LET Ma == FDiv(y[1], SoundSpeed(y[2], y[3]))
  IN  FSub(FMul(Ma, Ma), FMul(args.Ma_low, args.Ma_low))

\* positions the integrator may stop at: the ends and every crossing of a
\* sampled Mach number
TrajectoryPoints(in) ==
  {Zero, FirstPassT1}
    \cup (IF FLt(Zero, in.slope)
          THEN {FDiv(FSub(M, in.Ma_in), in.slope) :
                  M \in {Mv \in MarchMach : FLe(in.Ma_in, Mv)}}
          ELSE {})

\* dfx.diffeqsolve(..., event=event1), saveat t1: the state where the event
\* function first reaches zero from below, else the state at t1
FirstPassEnd(in) ==
  LET hits == {x \in TrajectoryPoints(in) :
                 /\ FLt(mach_event_cond(TrajectoryState(in, Zero), in), Zero)
                 /\ FLe(Zero, mach_event_cond(TrajectoryState(in, x), in))}
      found == hits # {}
      x_end == IF found
               THEN CHOOSE x \in hits : \A x2 \in hits : FLe(x, x2)
               ELSE FirstPassT1
      y_end == TrajectoryState(in, x_end)
  IN  [x |-> x_end, y |-> y_end,
       Ma |-> FDiv(y_end[1], SoundSpeed(y_end[2], y_end[3])), event |-> found]

\* _smoothstep(x)
smoothstep(x) ==
  LET c == Clip(x, Zero, One)
  IN  FMul(FMul(c, c), FSub(Q(3, 1), FMul(Two, c)))

InWindow_Always(M, args) == TRUE

\* in_window = (M >= args.Ma_low) & (M <= args.Ma_high)
InWindow(M, args) == FLe(args.Ma_low, M) /\ FLe(M, args.Ma_high)

BlendWeight_FromWindowStart(M, args) ==
  smoothstep(Clip(FDiv(FSub(M, args.Ma_low), FSub(args.Ma_high, args.Ma_low)),
                  Zero, One))

\* s = (M - Ma_start) / (Ma_end - Ma_start); w = _smoothstep(jnp.clip(s, 0.0, 1.0))
BlendWeight(M, args) ==
  smoothstep(Clip(FDiv(FSub(M, Ma_start), FSub(args.Ma_high, Ma_start)),
                  Zero, One))

\* ode_full_transonic(t, y, args) with base = nozzle_single_phase_core(t, y, args)
ode_full_transonic(t, y, args, base, lin) ==
  LET M == base.Ma
      rhs_true == base.rhs
      Jdy == MatVec(lin.Jy, [i \in 1..3 |-> FSub(y[i], lin.y[i])])
      rhs_lin == [i \in 1..3 |->
                    FAdd(FAdd(lin.f_star[i], Jdy[i]),
                         FMul(lin.Jt[i], FSub(t, lin.x)))]
      w == BlendWeight(M, args)
      blend == [i \in 1..3 |->
                  FAdd(FMul(FSub(One, w), rhs_lin[i]), FMul(w, rhs_true[i]))]
      in_window == InWindow(M, args)
  IN  [t |-> t, y |-> y, Ma |-> M, w |-> w, in_window |-> in_window,
       rhs |-> rhs_true, rhs_lin |-> rhs_lin,
       rhs_blend |-> IF in_window THEN blend ELSE rhs_true]

\* sol1 = dfx.diffeqsolve(term1, ..., event=event1); x_crit, y_crit = last state
MFirstPass ==
  /\ m_pc = "pass1"
  /\ m_crit' = FirstPassEnd(m_in)
  /\ m_pc' = "linearize"
  /\ UNCHANGED <<m_in, m_lin, m_eval, m_steps>>
  /\ UNCHANGED outside_m

\* f_star, Jy, Jt = _linearize_rhs_at(x_crit, y_crit, params_model)
MLinearize ==
  /\ m_pc = "linearize"
  /\ \E f \in RhsSamples, J \in JySamples, Jt \in RhsSamples :
       m_lin' = [f_star |-> f, Jy |-> J, Jt |-> Jt, x |-> m_crit.x, y |-> m_crit.y]
  /\ m_pc' = "pass2"
  /\ UNCHANGED <<m_in, m_crit, m_eval, m_steps>>
  /\ UNCHANGED outside_m

\* one evaluation of ode_full_transonic by the second diffeqsolve
MEvalTransonic ==
  /\ m_pc = "pass2"
  /\ m_steps < MaxMarchSteps
  /\ \E M \in MarchMach, rhs \in RhsSamples, dt \in {Zero, One} :
       LET t == FAdd(m_crit.x, dt)
           y == <<FMul(M, SoundSpeed(One, One)), One, One>>
       IN  \* the physics is a function: at the expansion point it returns f_star
           /\ (t = m_lin.x /\ y = m_lin.y) => rhs = m_lin.f_star
           /\ m_eval' = ode_full_transonic(t, y, m_in, [Ma |-> M, rhs |-> rhs], m_lin)
  /\ m_steps' = m_steps + 1
  /\ UNCHANGED <<m_pc, m_in, m_crit, m_lin>>
  /\ UNCHANGED outside_m

\* return sol2
MReturn ==
  /\ m_pc = "pass2"
  /\ m_pc' = "returned"
  /\ UNCHANGED <<m_in, m_crit, m_lin, m_eval, m_steps>>
  /\ UNCHANGED outside_m

MarchNext == MFirstPass \/ MLinearize \/ MEvalTransonic \/ MReturn

(***************************************************************************)
(* Specification SpecNewton: the root_find call inside find_maximum_mach.  *)
(* The solver is a library: after an iteration it may declare the search   *)
(* over (converged or diverged, by its rtol / atol test), otherwise it      *)
(* iterates until max_steps; throw=False makes every verdict a result.     *)
(***************************************************************************)
\* newton_steps=50
newton_steps == 50

\* throw=False
RootFindThrow == FALSE

\* verdicts of the solver's termination test after an iteration
NewtonVerdicts == {"successful", "nonlinear_divergence"}

\* one Newton iteration; the termination test does not end the search
NNewtonStep ==
  /\ n_pc = "iterating"
  /\ n_steps < n_in.max_steps
  /\ n_steps' = n_steps + 1
  /\ UNCHANGED <<n_pc, n_in, n_result>>
  /\ UNCHANGED outside_n

\* the solver's termination test (rtol, atol) ends the search
NTerminate ==
  /\ n_pc = "iterating"
  /\ n_steps >= 1
  /\ \E v \in NewtonVerdicts :
       /\ n_result' = v
       /\ n_pc' = IF RootFindThrow /\ v # "successful" THEN "raised" ELSE "done"
  /\ UNCHANGED <<n_in, n_steps>>
  /\ UNCHANGED outside_n

\* max_steps iterations were made without the test ending the search
NMaxSteps ==
  /\ n_pc = "iterating"
  /\ n_steps = n_in.max_steps
  /\ n_result' = "max_steps_reached"
  /\ n_pc' = IF RootFindThrow THEN "raised" ELSE "done"
  /\ UNCHANGED <<n_in, n_steps>>
  /\ UNCHANGED outside_n

NewtonNext == NNewtonStep \/ NTerminate \/ NMaxSteps

(***************************************************************************)
(* Specification SpecGuess: initialize_flowfield with its two backend      *)
(* queries, and the start of a solve from the guess it returns.            *)
(***************************************************************************)
IdleGuessIn == [num_points |-> 0]

\* the floor 1e-12, taken as 2^-12 so that its base-2 logarithm is exact
LogFloor == Q(1, 4096)

linspace01_NoEndpoint(n) == [i \in 1..(n - 1) |-> Q(i - 1, n)]

\* jnp.linspace(0.0, 1.0, n)
linspace01(n) == [i \in 1..n |-> IF n = 1 THEN Zero ELSE Q(i - 1, n - 1)]

\* Ma_min + (Ma_max - Ma_min) * (1.0 - 4.0 * (x_uniform - 0.5) ** 2)
mach_profile(x_uniform, Ma_min, Ma_max) ==
  [i \in 1..Len(x_uniform) |->
     LET c == FSub(x_uniform[i], Half)
     IN  FAdd(Ma_min, FMul(FSub(Ma_max, Ma_min),
                           FSub(One, FMul(Q(4, 1), FMul(c, c)))))]

floor_values_Unfloored(v) == v

\* jnp.maximum(v, 1e-12)
floor_values(v) == [i \in 1..Len(v) |-> FMax(v[i], LogFloor)]

\* get_props(input_pair, first, second, fluid) as the backend sees it: the pair,
\* the two positional arguments, their broadcast shape and the answer it gave
BackendQuery(pair, first, second, shape, answer) ==
  [pair |-> pair, args |-> <<first, second>>, shape |-> shape, answer |-> answer]

\* st0 = get_props(cpx.DmassP_INPUTS, d0, p0, fluid)
compute_static_state_query(p0, d0, answer) ==
  BackendQuery("DmassP_INPUTS", d0, p0, <<>>, answer)

\* the function body, for the answers state0_in and state_static of the backend
initialize_flowfield(num_points, params, Ma_min, Ma_max, state0_in, state_static) ==
  LET x_uniform == linspace01(num_points + 1)
      flowfield_v == [i \in 1..Len(x_uniform) |->
                        FMul(mach_profile(x_uniform, Ma_min, Ma_max)[i], state0_in.a)]
      h_static == [i \in 1..Len(flowfield_v) |->
                     FSub(state0_in.h, FMul(Half, FMul(flowfield_v[i], flowfield_v[i])))]
      d_static == floor_values(state_static.rho)
      p_static == floor_values(state_static.p)
      flowfield_ln_d == [i \in 1..Len(d_static) |-> FLog(d_static[i])]
      flowfield_ln_p == [i \in 1..Len(p_static) |-> FLog(p_static[i])]
  IN  [queries |->
         << BackendQuery("DmassP_INPUTS", params.p0_in, params.d0_in, <<>>, state0_in),
            BackendQuery("HmassSmass_INPUTS", h_static, state0_in.s,
                         <<Len(h_static)>>, state_static) >>,
       z |-> flowfield_v \o flowfield_ln_d \o flowfield_ln_p]

\* what the backend can answer for one node: density and pressure, which may be
\* zero, negative, below the floor, or not finite
BackendPairs ==
  { <<Q(4, 1), One>>, <<Zero, FNeg(One)>>, <<Q(1, 8192), Two>>, <<NaN, PInf>> }

\* the answers for n nodes: a regular state everywhere but at one node
StaticAnswers(n) ==
  { [i \in 1..n |-> IF i = k THEN b ELSE <<Q(4, 1), One>>] :
      k \in 1..n, b \in BackendPairs }

\* a, h, s of the inlet stagnation state
StagnationAnswers == [a : {One, Two}, h : {Q(3, 1)}, s : {One}]

\* z0 = initialize_flowfield(num_points, params) with the default Ma_min, Ma_max
FInitializeFlowfield ==
  /\ f_pc = "start"
  /\ \E state0_in \in StagnationAnswers,
        nodes \in StaticAnswers(Len(linspace01(f_in.num_points + 1))) :
       LET state_static == [rho |-> [i \in DOMAIN nodes |-> nodes[i][1]],
                            p |-> [i \in DOMAIN nodes |-> nodes[i][2]]]
           r == initialize_flowfield(f_in.num_points, f_in, f_in.Ma_min, f_in.Ma_max,
                                     state0_in, state_static)
       IN  /\ f_queries' = r.queries
           /\ f_z' = r.z
  /\ f_pc' = "returned"
  /\ UNCHANGED f_in
  /\ UNCHANGED outside_f

\* solve_nozzle_model_collocation(z0, params_model, params_solver) builds the
\* grid from the same num_points and hands z0 to the residual function
FSolveFromGuess ==
  /\ f_pc = "returned"
  /\ r_in = IdleResidIn
  /\ LET g == chebyshev_lobatto_basis(f_in.num_points, Zero, One)
     IN  \E out \in {o \in PhysicsOutputs(Len(g.x)) :
                          o.N[1][1] = One /\ o.d0[1] = One /\ o.p0[1] = One} :
           r_in' = [N |-> f_in.num_points, x |-> g.x, Dx |-> g.D, z |-> f_z,
                    out |-> out,
                    model |-> [Ma_in |-> One, Ma_target |-> One,
                               d0_in |-> f_in.d0_in, p0_in |-> f_in.p0_in]]
  /\ UNCHANGED <<r_inlet, r_crit, r_fmm>>
  /\ UNCHANGED <<f_vars, c_vars, d_vars, l_vars, s_vars, m_vars, n_vars>>

GuessNext == FInitializeFlowfield \/ FSolveFromGuess \/ ResidNext

\* the spectral utilities, called on polynomial data
InitCheb ==
  /\ \E N \in Orders, iv \in Intervals :
       \E cs \in [1..(N + 1) -> CoefSet] :
         c_in = [N |-> N, x1 |-> iv[1], x2 |-> iv[2], coef |-> cs]
  /\ c_grid = NoGrid
  /\ c_Dy = <<>>
  /\ c_ev = NoEval
  /\ d_in = IdleDriverIn
  /\ d_pc = "idle"
  /\ d_grid = NoGrid
  /\ d_fn = "none"
  /\ d_solvers = NoSolvers
  /\ d_log = <<>>
  /\ d_out = NoOutcome
  /\ d_repeat = 0
  /\ d_first = NoFirst
  /\ r_in = IdleResidIn
  /\ r_inlet = <<>>
  /\ r_crit = <<>>
  /\ r_fmm = NoFmm
  /\ l_pc = "idle"
  /\ l_in = IdleLayoutIn
  /\ l_z = <<>>
  /\ l_out = NoSplit
  /\ s_heap = <<>>
  /\ s_ref = 0
  /\ s_calls = 0
  /\ s_last = NoCall
  /\ m_pc = "idle"
  /\ m_in = IdleMarchIn
  /\ m_crit = NoCrit
  /\ m_lin = NoLin
  /\ m_eval = NoMarchEval
  /\ m_steps = 0
  /\ n_pc = "idle"
  /\ n_in = [max_steps |-> 0]
  /\ n_steps = 0
  /\ n_result = "none"
  /\ f_pc = "idle"
  /\ f_in = IdleGuessIn
  /\ f_queries = <<>>
  /\ f_z = <<>>

\* one call of solve_nozzle_model_collocation
InitSolve ==
  /\ \E m \in SolveModes, n \in NodeCounts, mt \in SolverNames,
        wm \in SolverNames, L \in {1, 5} :
       d_in = [solve_mode |-> m, num_points |-> n, method |-> mt,
               warmup_method |-> wm, length |-> L, initial_guess |-> 0]
  /\ d_pc = "basis"
  /\ d_grid = NoGrid
  /\ d_fn = "none"
  /\ d_solvers = NoSolvers
  /\ d_log = <<>>
  /\ d_out = NoOutcome
  /\ d_repeat = 0
  /\ d_first = NoFirst
  /\ c_in = IdleChebIn
  /\ c_grid = NoGrid
  /\ c_Dy = <<>>
  /\ c_ev = NoEval
  /\ r_in = IdleResidIn
  /\ r_inlet = <<>>
  /\ r_crit = <<>>
  /\ r_fmm = NoFmm
  /\ l_pc = "idle"
  /\ l_in = IdleLayoutIn
  /\ l_z = <<>>
  /\ l_out = NoSplit
  /\ s_heap = <<>>
  /\ s_ref = 0
  /\ s_calls = 0
  /\ s_last = NoCall
  /\ m_pc = "idle"
  /\ m_in = IdleMarchIn
  /\ m_crit = NoCrit
  /\ m_lin = NoLin
  /\ m_eval = NoMarchEval
  /\ m_steps = 0
  /\ n_pc = "idle"
  /\ n_in = [max_steps |-> 0]
  /\ n_steps = 0
  /\ n_result = "none"
  /\ f_pc = "idle"
  /\ f_in = IdleGuessIn
  /\ f_queries = <<>>
  /\ f_z = <<>>

\* two calls of solve_nozzle_model_collocation with the same arguments
InitTwice ==
  /\ \E m \in SolveModes, n \in {1, 2}, mt \in {"GaussNewton", "Newton"} :
       d_in = [solve_mode |-> m, num_points |-> n, method |-> mt,
               warmup_method |-> "LevenbergMarquardt", length |-> 1,
               initial_guess |-> 0]
  /\ d_pc = "basis"
  /\ d_grid = NoGrid
  /\ d_fn = "none"
  /\ d_solvers = NoSolvers
  /\ d_log = <<>>
  /\ d_out = NoOutcome
  /\ d_repeat = 1
  /\ d_first = NoFirst
  /\ c_in = IdleChebIn
  /\ c_grid = NoGrid
  /\ c_Dy = <<>>
  /\ c_ev = NoEval
  /\ r_in = IdleResidIn
  /\ r_inlet = <<>>
  /\ r_crit = <<>>
  /\ r_fmm = NoFmm
  /\ l_pc = "idle"
  /\ l_in = IdleLayoutIn
  /\ l_z = <<>>
  /\ l_out = NoSplit
  /\ s_heap = <<>>
  /\ s_ref = 0
  /\ s_calls = 0
  /\ s_last = NoCall
  /\ m_pc = "idle"
  /\ m_in = IdleMarchIn
  /\ m_crit = NoCrit
  /\ m_lin = NoLin
  /\ m_eval = NoMarchEval
  /\ m_steps = 0
  /\ n_pc = "idle"
  /\ n_in = [max_steps |-> 0]
  /\ n_steps = 0
  /\ n_result = "none"
  /\ f_pc = "idle"
  /\ f_in = IdleGuessIn
  /\ f_queries = <<>>
  /\ f_z = <<>>

\* the two residual functions, called on the same arguments
InitResid ==
  /\ \E N \in ResidOrders :
       LET g == chebyshev_lobatto_basis(N, Zero, One)
       IN  \E z \in StateVectors(N + 1), out \in PhysicsOutputs(N + 1),
              model \in ModelParams :
             r_in = [N |-> N, x |-> g.x, Dx |-> g.D, z |-> z,
                     out |-> out, model |-> model]
  /\ r_inlet = <<>>
  /\ r_crit = <<>>
  /\ r_fmm = NoFmm
  /\ c_in = IdleChebIn
  /\ c_grid = NoGrid
  /\ c_Dy = <<>>
  /\ c_ev = NoEval
  /\ d_in = IdleDriverIn
  /\ d_pc = "idle"
  /\ d_grid = NoGrid
  /\ d_fn = "none"
  /\ d_solvers = NoSolvers
  /\ d_log = <<>>
  /\ d_out = NoOutcome
  /\ d_repeat = 0
  /\ d_first = NoFirst
  /\ l_pc = "idle"
  /\ l_in = IdleLayoutIn
  /\ l_z = <<>>
  /\ l_out = NoSplit
  /\ s_heap = <<>>
  /\ s_ref = 0
  /\ s_calls = 0
  /\ s_last = NoCall
  /\ m_pc = "idle"
  /\ m_in = IdleMarchIn
  /\ m_crit = NoCrit
  /\ m_lin = NoLin
  /\ m_eval = NoMarchEval
  /\ m_steps = 0
  /\ n_pc = "idle"
  /\ n_in = [max_steps |-> 0]
  /\ n_steps = 0
  /\ n_result = "none"
  /\ f_pc = "idle"
  /\ f_in = IdleGuessIn
  /\ f_queries = <<>>
  /\ f_z = <<>>

\* three sequences of one length, to be packed and split
InitLayout ==
  /\ \E n \in LayoutLens :
       \E u \in [1..n -> LayoutValues], ln_d \in [1..n -> LayoutValues],
          ln_p \in [1..n -> LayoutValues] :
         l_in = [n |-> n, u |-> u, ln_d |-> ln_d, ln_p |-> ln_p]
  /\ l_pc = "start"
  /\ l_z = <<>>
  /\ l_out = NoSplit
  /\ c_in = IdleChebIn
  /\ c_grid = NoGrid
  /\ c_Dy = <<>>
  /\ c_ev = NoEval
  /\ d_in = IdleDriverIn
  /\ d_pc = "idle"
  /\ d_grid = NoGrid
  /\ d_fn = "none"
  /\ d_solvers = NoSolvers
  /\ d_log = <<>>
  /\ d_out = NoOutcome
  /\ d_repeat = 0
  /\ d_first = NoFirst
  /\ r_in = IdleResidIn
  /\ r_inlet = <<>>
  /\ r_crit = <<>>
  /\ r_fmm = NoFmm
  /\ s_heap = <<>>
  /\ s_ref = 0
  /\ s_calls = 0
  /\ s_last = NoCall
  /\ m_pc = "idle"
  /\ m_in = IdleMarchIn
  /\ m_crit = NoCrit
  /\ m_lin = NoLin
  /\ m_eval = NoMarchEval
  /\ m_steps = 0
  /\ n_pc = "idle"
  /\ n_in = [max_steps |-> 0]
  /\ n_steps = 0
  /\ n_result = "none"
  /\ f_pc = "idle"
  /\ f_in = IdleGuessIn
  /\ f_queries = <<>>
  /\ f_z = <<>>

\* params_model = NozzleParams(...), before the sweep
InitSweep ==
  /\ \E p0 \in {PyFloat(One), Array(One)}, ma \in {Array(Q(1, 10)), Array(Half)} :
       s_heap = << [f \in ParamFields |->
                     IF f = "p0_in" THEN p0
                     ELSE IF f = "d0_in" THEN PyFloat(Q(6, 5))
                     ELSE IF f = "Ma_in" THEN ma
                     ELSE Array(One)] >>
  /\ s_ref = 1
  /\ s_calls = 0
  /\ s_last = NoCall
  /\ c_in = IdleChebIn
  /\ c_grid = NoGrid
  /\ c_Dy = <<>>
  /\ c_ev = NoEval
  /\ d_in = IdleDriverIn
  /\ d_pc = "idle"
  /\ d_grid = NoGrid
  /\ d_fn = "none"
  /\ d_solvers = NoSolvers
  /\ d_log = <<>>
  /\ d_out = NoOutcome
  /\ d_repeat = 0
  /\ d_first = NoFirst
  /\ r_in = IdleResidIn
  /\ r_inlet = <<>>
  /\ r_crit = <<>>
  /\ r_fmm = NoFmm
  /\ l_pc = "idle"
  /\ l_in = IdleLayoutIn
  /\ l_z = <<>>
  /\ l_out = NoSplit
  /\ m_pc = "idle"
  /\ m_in = IdleMarchIn
  /\ m_crit = NoCrit
  /\ m_lin = NoLin
  /\ m_eval = NoMarchEval
  /\ m_steps = 0
  /\ n_pc = "idle"
  /\ n_in = [max_steps |-> 0]
  /\ n_steps = 0
  /\ n_result = "none"
  /\ f_pc = "idle"
  /\ f_in = IdleGuessIn
  /\ f_queries = <<>>
  /\ f_z = <<>>

\* the Mach window of params_model and the flow the first pass marches through
InitMarch ==
  /\ \E win \in {<<Q(19, 20), Q(21, 20)>>, <<Q(39, 40), Q(41, 40)>>},
        Ma_in \in {Q(1, 10), Half}, slope \in {Zero, Q(1, 10)} :
       m_in = [Ma_low |-> win[1], Ma_high |-> win[2], Ma_in |-> Ma_in, slope |-> slope]
  /\ m_pc = "pass1"
  /\ m_crit = NoCrit
  /\ m_lin = NoLin
  /\ m_eval = NoMarchEval
  /\ m_steps = 0
  /\ c_in = IdleChebIn
  /\ c_grid = NoGrid
  /\ c_Dy = <<>>
  /\ c_ev = NoEval
  /\ d_in = IdleDriverIn
  /\ d_pc = "idle"
  /\ d_grid = NoGrid
  /\ d_fn = "none"
  /\ d_solvers = NoSolvers
  /\ d_log = <<>>
  /\ d_out = NoOutcome
  /\ d_repeat = 0
  /\ d_first = NoFirst
  /\ r_in = IdleResidIn
  /\ r_inlet = <<>>
  /\ r_crit = <<>>
  /\ r_fmm = NoFmm
  /\ l_pc = "idle"
  /\ l_in = IdleLayoutIn
  /\ l_z = <<>>
  /\ l_out = NoSplit
  /\ s_heap = <<>>
  /\ s_ref = 0
  /\ s_calls = 0
  /\ s_last = NoCall
  /\ n_pc = "idle"
  /\ n_in = [max_steps |-> 0]
  /\ n_steps = 0
  /\ n_result = "none"
  /\ f_pc = "idle"
  /\ f_in = IdleGuessIn
  /\ f_queries = <<>>
  /\ f_z = <<>>

\* sol = opx.root_find(resid, solver, y0=x0, max_steps=newton_steps, throw=False)
InitNewton ==
  /\ \E k \in {5, newton_steps} : n_in = [max_steps |-> k]
  /\ n_pc = "iterating"
  /\ n_steps = 0
  /\ n_result = "none"
  /\ m_pc = "idle"
  /\ m_in = IdleMarchIn
  /\ m_crit = NoCrit
  /\ m_lin = NoLin
  /\ m_eval = NoMarchEval
  /\ m_steps = 0
  /\ c_in = IdleChebIn
  /\ c_grid = NoGrid
  /\ c_Dy = <<>>
  /\ c_ev = NoEval
  /\ d_in = IdleDriverIn
  /\ d_pc = "idle"
  /\ d_grid = NoGrid
  /\ d_fn = "none"
  /\ d_solvers = NoSolvers
  /\ d_log = <<>>
  /\ d_out = NoOutcome
  /\ d_repeat = 0
  /\ d_first = NoFirst
  /\ r_in = IdleResidIn
  /\ r_inlet = <<>>
  /\ r_crit = <<>>
  /\ r_fmm = NoFmm
  /\ l_pc = "idle"
  /\ l_in = IdleLayoutIn
  /\ l_z = <<>>
  /\ l_out = NoSplit
  /\ s_heap = <<>>
  /\ s_ref = 0
  /\ s_calls = 0
  /\ s_last = NoCall
  /\ f_pc = "idle"
  /\ f_in = IdleGuessIn
  /\ f_queries = <<>>
  /\ f_z = <<>>

\* initialize_flowfield(num_points, params) about to be called
InitGuess ==
  /\ \E np \in ResidOrders, d0 \in {One, Two} :
       f_in = [num_points |-> np, p0_in |-> Q(4, 1), d0_in |-> d0,
               Ma_min |-> Q(1, 10), Ma_max |-> Q(1, 5)]
  /\ f_pc = "start"
  /\ f_queries = <<>>
  /\ f_z = <<>>
  /\ c_in = IdleChebIn
  /\ c_grid = NoGrid
  /\ c_Dy = <<>>
  /\ c_ev = NoEval
  /\ d_in = IdleDriverIn
  /\ d_pc = "idle"
  /\ d_grid = NoGrid
  /\ d_fn = "none"
  /\ d_solvers = NoSolvers
  /\ d_log = <<>>
  /\ d_out = NoOutcome
  /\ d_repeat = 0
  /\ d_first = NoFirst
  /\ r_in = IdleResidIn
  /\ r_inlet = <<>>
  /\ r_crit = <<>>
  /\ r_fmm = NoFmm
  /\ l_pc = "idle"
  /\ l_in = IdleLayoutIn
  /\ l_z = <<>>
  /\ l_out = NoSplit
  /\ s_heap = <<>>
  /\ s_ref = 0
  /\ s_calls = 0
  /\ s_last = NoCall
  /\ m_pc = "idle"
  /\ m_in = IdleMarchIn
  /\ m_crit = NoCrit
  /\ m_lin = NoLin
  /\ m_eval = NoMarchEval
  /\ m_steps = 0
  /\ n_pc = "idle"
  /\ n_in = [max_steps |-> 0]
  /\ n_steps = 0
  /\ n_result = "none"

SpecCheb == InitCheb /\ [][ChebNext]_vars

SpecSolve == InitSolve /\ [][DriverNext]_vars

SpecTwice == InitTwice /\ [][TwiceNext]_vars

SpecResid == InitResid /\ [][ResidNext]_vars

SpecLayout == InitLayout /\ [][LayoutNext]_vars

SpecSweep == InitSweep /\ [][SweepNext]_vars

SpecMarch == InitMarch /\ [][MarchNext]_vars

SpecNewton == InitNewton /\ [][NewtonNext]_vars

SpecGuess == InitGuess /\ [][GuessNext]_vars

Init ==
  InitCheb \/ InitSolve \/ InitResid \/ InitLayout \/ InitSweep \/ InitMarch
    \/ InitTwice \/ InitNewton \/ InitGuess

Next ==
  ChebNext \/ DriverNext \/ ResidNext \/ LayoutNext \/ SweepNext \/ MarchNext
    \/ DSecondCall \/ NewtonNext \/ FInitializeFlowfield \/ FSolveFromGuess

Spec == Init /\ [][Next]_vars

(***************************************************************************)
(* Claims about the residual functions (specification SpecResid).          *)
(***************************************************************************)
r_n == r_in.N + 1

r_split == split_z(r_in.z, r_n)

\* the interior residual of block b (1: u, 2: ln_d, 3: ln_p) at node i
InteriorEntry(b, i) ==
  LET v == IF b = 1 THEN r_split.u ELSE IF b = 2 THEN r_split.ln_d ELSE r_split.ln_p
      rhs == FDiv(r_in.out.N[i][b], r_in.out.D[i])
      scaled == IF b = 1 THEN rhs ELSE FDiv(rhs, FExp(v[i]))
  IN  FSub(RowDot(r_in.Dx, v, i), scaled)

C6_CriticalDiffersOnlyAtZero ==
  (r_inlet # <<>> /\ r_crit # <<>>) =>
    /\ Len(r_crit) = Len(r_inlet)
    /\ \A i \in 2..Len(r_inlet) : r_crit[i] = r_inlet[i]
    /\ r_crit[1] = FSub(r_in.model.Ma_target, r_fmm.p_star)
    /\ r_fmm.p_star =
         chebyshev_lobatto_interpolate_and_derivative(
           r_in.x, r_in.out.Ma, r_fmm.x_star).p

C6_Witness ==
  /\ r_inlet # <<>>
  /\ r_crit # <<>>
  /\ r_in.N = 2
  /\ r_crit[1] # r_inlet[1]
  /\ r_crit[r_n + 1] # Zero
  /\ r_crit[3 * r_n] # Zero
  /\ r_fmm.x_star \notin {r_in.x[i] : i \in 1..r_n}

(***************************************************************************)
(* Claims about solve_nozzle_model_collocation (specification SpecSolve).  *)
(***************************************************************************)
\* C1: non-convergence of the main solver never raises: whenever the main
\* solver has been invoked, whatever its result, the call does not end raised.
C1_MainFailureNeverRaises ==
  Len(MainInvocations) > 0 => d_pc # "raised"

\* C2: the warmup never raises whatever its result; the main solver then runs
\* exactly once, after the warmup, from the warmup's returned iterate; the
\* returned physics dictionary is evaluated at the main solver's final value.
C2_WarmupBestEffortThenMain ==
  /\ d_out.at # "warmup"
  /\ Len(WarmupInvocations) > 0 =>
       (d_pc = "main" /\ d_log = WarmupInvocations) \/ Len(MainInvocations) = 1
  /\ Len(MainInvocations) > 0 =>
       /\ Len(d_log) = 2
       /\ d_log[1].stage = "warmup"
       /\ d_log[2].stage = "main"
       /\ d_log[2].y0 = d_log[1].value
  /\ d_pc = "returned" =>
       /\ Len(MainInvocations) = 1
       /\ d_out.evaluated_at = MainInvocations[1].value

C2_Witness ==
  /\ d_pc = "returned"
  /\ d_log[1].result = "nonlinear_divergence"
  /\ d_log[1].value = 2
  /\ d_log[2].value = 1

\* C3: a solve_mode other than "mach_in" or "mach_crit" ends in ValueError
\* before any solve attempt: no solver is invoked and nothing is returned.
C3_UnknownModeFailsFast ==
  d_in.solve_mode \notin {"mach_in", "mach_crit"} =>
    /\ d_log = <<>>
    /\ d_pc \in {"basis", "select", "raised"}
    /\ d_pc = "raised" => (d_out.kind = "raised" /\ d_out.error = "ValueError")

C3_Witness ==
  /\ d_in.solve_mode = "mach_out"
  /\ d_pc = "raised"
  /\ d_out.error = "ValueError"
  /\ d_log = <<>>

\* C4: a node count below 1 fails with a configuration error before any solve
\* attempt: no solver is ever invoked for such a call.
C4_InvalidNodeCountFailsFast ==
  d_in.num_points < 1 => d_log = <<>>

EvalNodeIndex ==
  IF \E i \in 1..Len(c_grid.x) : c_ev.x = c_grid.x[i]
  THEN CHOOSE i \in 1..Len(c_grid.x) : c_ev.x = c_grid.x[i]
  ELSE 0

\* C7: evaluated exactly at node i, the interpolation routine returns as
\* derivative row i of the differentiation matrix applied to the nodal values
\* (the exact derivative of the interpolating polynomial at that node).
C7_AtNodeDerivativeIsRowOfD ==
  (c_ev.branch # "none" /\ EvalNodeIndex # 0)
    => c_ev.dp = RowDot(c_grid.D, c_y, EvalNodeIndex)

\* C8: evaluated exactly at a node, the routine takes the at-node branch and
\* returns the stored nodal value and a finite derivative.
C8_AtNodeExactValue ==
  (c_ev.branch # "none" /\ EvalNodeIndex # 0)
    => /\ c_ev.branch = "at_node"
       /\ c_ev.p = c_y[EvalNodeIndex]
       /\ IsFinite(c_ev.dp)

C8_Witness ==
  /\ c_ev.branch = "at_node"
  /\ c_in.N = 3
  /\ EvalNodeIndex = 2
  /\ c_in.coef[4] # 0

\* C9: D applied to the nodal values of a polynomial of degree <= N is the
\* polynomial's analytic derivative at each returned node.
C9_DExactOnPolynomials ==
  c_Dy # <<>>
    => \A i \in 1..Len(c_grid.x) :
         c_Dy[i] = PolyEval(PolyDeriv(c_in.coef), c_grid.x[i])

C9_Witness ==
  /\ c_Dy # <<>>
  /\ c_in.N = 3
  /\ c_in.coef[4] # 0
  /\ c_in.x1 = 1
  /\ \E i \in 1..Len(c_Dy) : c_Dy[i] # Zero

\* C10: every row of the returned differentiation matrix sums to zero, and D
\* applied to a constant nodal vector is the zero vector.
C10_RowSumsZero ==
  c_grid # NoGrid
    => /\ \A i \in 1..Len(c_grid.D) : FSum(c_grid.D[i]) = Zero
       /\ \A k \in CoefSet :
            MatVec(c_grid.D, [j \in 1..Len(c_grid.x) |-> Q(k, 1)])
              = [j \in 1..Len(c_grid.x) |-> Zero]

C10_Witness ==
  /\ c_grid # NoGrid
  /\ Len(c_grid.D) = 4
  /\ c_grid.D[1][1] # Zero

\* C11: for N >= 1 and x1 < x2 the basis returns N + 1 nodes in physical
\* order (node 0 is x1, node N is x2, strictly increasing with the index) and
\* an (N + 1) x (N + 1) matrix that is the raw Chebyshev matrix with the same
\* index reversal applied to the rows and to the columns as to the nodes.
C11_PhysicalOrdering ==
  c_grid # NoGrid
    => LET n == c_in.N + 1
           raw == ChebyshevRawOrder(c_in.N, Q(c_in.x1, 1), Q(c_in.x2, 1))
       IN  /\ Len(c_grid.x) = n
           /\ c_grid.x[1] = Q(c_in.x1, 1)
           /\ c_grid.x[n] = Q(c_in.x2, 1)
           /\ \A i \in 1..(n - 1) : FLt(c_grid.x[i], c_grid.x[i + 1])
           /\ Len(c_grid.D) = n
           /\ \A i \in 1..n : Len(c_grid.D[i]) = n
           /\ \A i \in 1..n :
                /\ c_grid.x[i] = raw.x[n + 1 - i]
                /\ \A j \in 1..n : c_grid.D[i][j] = raw.D[n + 1 - i][n + 1 - j]

C11_Witness ==
  /\ c_grid # NoGrid
  /\ c_in.N = 3
  /\ c_in.x1 = 1
  /\ c_in.x2 = 3
  /\ c_grid.D[1][2] # c_grid.D[2][1]

(***************************************************************************)
(* Claims about the extremum locator (specification SpecResid).            *)
(***************************************************************************)
\* the locator has been called (by the critical-Mach residual)
FmmCalled == r_crit # <<>>

\* C12 (as stated): a non-finite Newton result (NaN, +inf, -inf) is replaced
\* by the soft-argmax guess x0, so the returned location is x0 and the
\* returned location and value are finite.
C12_NonFiniteReplacedByGuess ==
  (FmmCalled /\ ~IsFinite(r_fmm.newton))
    => /\ r_fmm.x_star = r_fmm.x0
       /\ IsFinite(r_fmm.x_star)
       /\ IsFinite(r_fmm.p_star)

\* C12 (amended): only a NaN Newton result is replaced by x0; +inf is
\* returned as the last node and -inf as the first node; in every case the
\* returned location and value are finite.
C12_NaNToGuessInfToBoundary ==
  (FmmCalled /\ ~IsFinite(r_fmm.newton))
    => /\ IsNaN(r_fmm.newton) => r_fmm.x_star = r_fmm.x0
       /\ r_fmm.newton = PInf => r_fmm.x_star = r_in.x[Len(r_in.x)]
       /\ r_fmm.newton = NInf => r_fmm.x_star = r_in.x[1]
       /\ IsFinite(r_fmm.x_star)
       /\ IsFinite(r_fmm.p_star)

C12_Witness ==
  /\ FmmCalled
  /\ r_fmm.newton = PInf
  /\ r_fmm.x_star = r_in.x[Len(r_in.x)]
  /\ r_fmm.x_star # r_fmm.x0

\* C13: for finite nodal values and any Newton result (inside the domain,
\* far outside it, or non-finite) the returned location lies within
\* [x_nodes[0], x_nodes[-1]].
C13_LocationInDomain ==
  FmmCalled
    => /\ FLe(r_in.x[1], r_fmm.x_star)
       /\ FLe(r_fmm.x_star, r_in.x[Len(r_in.x)])

C13_Witness ==
  /\ FmmCalled
  /\ r_fmm.newton = FAdd(r_in.x[Len(r_in.x)], One)
  /\ r_fmm.x_star = r_in.x[Len(r_in.x)]
  /\ r_in.N = 2

\* the interpolant of the nodal Mach profile at location x
MachInterpolant(x) ==
  chebyshev_lobatto_interpolate_and_derivative(r_in.x, r_in.out.Ma, x).p

\* C23: the value find_maximum_mach returns is the interpolant of the nodal
\* data at the location it returns, the Newton result after NaN replacement
\* and clipping; where that location is a node, the value is that node's value.
C23_ValueAtReturnedLocation ==
  FmmCalled
    => /\ r_fmm.x_star = Clip(NanToNum(r_fmm.newton, r_fmm.x0),
                              r_in.x[1], r_in.x[Len(r_in.x)])
       /\ r_fmm.p_star = MachInterpolant(r_fmm.x_star)
       /\ \A i \in 1..Len(r_in.x) :
            r_fmm.x_star = r_in.x[i] => r_fmm.p_star = r_in.out.Ma[i]

C23_Witness ==
  /\ FmmCalled
  /\ r_fmm.newton = FSub(r_in.x[1], One)
  /\ r_fmm.x_star = r_in.x[1]
  /\ r_fmm.p_star = r_in.out.Ma[1]
  /\ MachInterpolant(r_fmm.newton) # r_fmm.p_star

(***************************************************************************)
(* Claims about the state layout (specification SpecLayout).               *)
(***************************************************************************)
\* the positions of the flat vector each slice of split_z reads: split_z
\* applied to the vector whose entry at every position is that position
SlicePositions == split_z([i \in 1..Len(l_z) |-> i], l_in.n)

Range(s) == {s[i] : i \in 1..Len(s)}

\* C14: splitting the concatenation of u, ln_d, ln_p (each of length n) at n
\* returns exactly (u, ln_d, ln_p); the three slices read disjoint positions
\* that together are every position of the flat vector, whose length is 3n.
C14_SplitConcatRoundTrip ==
  l_pc = "split"
    => /\ l_out.u = l_in.u
       /\ l_out.ln_d = l_in.ln_d
       /\ l_out.ln_p = l_in.ln_p
       /\ Len(l_z) = 3 * l_in.n
       /\ Range(SlicePositions.u) \cap Range(SlicePositions.ln_d) = {}
       /\ Range(SlicePositions.u) \cap Range(SlicePositions.ln_p) = {}
       /\ Range(SlicePositions.ln_d) \cap Range(SlicePositions.ln_p) = {}
       /\ Range(SlicePositions.u) \cup Range(SlicePositions.ln_d)
            \cup Range(SlicePositions.ln_p) = 1..Len(l_z)

C14_Witness ==
  /\ l_pc = "split"
  /\ l_in.n = 3
  /\ l_in.u # l_in.ln_d
  /\ l_in.ln_d # l_in.ln_p
  /\ l_out.ln_p = l_in.ln_p

(***************************************************************************)
(* Claims about replace_param (specification SpecSweep).                   *)
(***************************************************************************)
\* C15: a replace_param call that returns creates one new record whose named
\* field holds the new value and whose other fields equal those of the record
\* passed in; the record passed in and every record created earlier in the
\* sweep keep their values.
C15_ReplaceParamFrame ==
  [][(s_calls' = s_calls + 1 /\ s_last'.error = "none")
       => /\ s_last'.obj = s_ref
          /\ s_ref' = Len(s_heap) + 1
          /\ Len(s_heap') = Len(s_heap) + 1
          /\ s_heap'[s_ref'][s_last'.field].val = s_last'.value.val
          /\ \A g \in ParamFields \ {s_last'.field} :
               s_heap'[s_ref'][g] = s_heap[s_ref][g]
          /\ \A i \in 1..Len(s_heap) : s_heap'[i] = s_heap[i]]_vars

C15_Witness ==
  /\ s_calls = 3
  /\ Len(s_heap) = 4
  /\ s_last.field = "p0_in"
  /\ s_heap[4]["p0_in"].val = Q(3, 1)
  /\ s_heap[3]["p0_in"].val = Two
  /\ s_heap[2]["Ma_in"].val = Two
  /\ s_heap[1]["p0_in"].val = One

(***************************************************************************)
(* Claims about the marching phase (specification SpecMarch).              *)
(***************************************************************************)
MarchEvaluated == m_steps > 0

\* C16: at a Mach number outside [Ma_low, Ma_high] the blended right-hand
\* side equals the true right-hand side exactly, whatever the position, the
\* state and the linear expansion are.
C16_OutsideWindowTrueRhs ==
  (MarchEvaluated /\ (FLt(m_eval.Ma, m_in.Ma_low) \/ FLt(m_in.Ma_high, m_eval.Ma)))
    => m_eval.rhs_blend = m_eval.rhs

C16_Witness ==
  /\ MarchEvaluated
  /\ FLt(m_in.Ma_high, m_eval.Ma)
  /\ m_eval.rhs_lin # m_eval.rhs
  /\ m_eval.rhs_blend = m_eval.rhs
  /\ m_eval.t # m_lin.x

\* C20 (as stated): the linear expansion is taken at the sonic state: the
\* expansion point (x_crit, y_crit) is a state whose Mach number is 1.
C20_ExpansionAtSonicState ==
  m_lin # NoLin => (m_lin.x = m_crit.x /\ m_lin.y = m_crit.y /\ m_crit.Ma = One)

\* C20 (amended): the expansion point is the final state of the first pass;
\* when the Mach event fired it is the state where the event function
\* Ma^2 - Ma_low^2 is zero, so its Mach number is Ma_low (below 1).
C20_ExpansionAtMaLow ==
  m_lin # NoLin
    => /\ m_lin.x = m_crit.x
       /\ m_lin.y = m_crit.y
       /\ m_crit.event
            => /\ mach_event_cond(m_crit.y, m_in) = Zero
               /\ m_crit.Ma = m_in.Ma_low
               /\ FLt(m_crit.Ma, One)

C20_Witness ==
  /\ m_lin # NoLin
  /\ m_crit.event
  /\ m_crit.Ma = Q(39, 40)
  /\ m_in.Ma_in = Half

(***************************************************************************)
(* Further claims about the solve call (specification SpecSolve).          *)
(***************************************************************************)
\* C18: the boundary-condition mode is selected once per call and never
\* changes: every solver invocation (warmup and main) is given the residual
\* function of the call's solve_mode, one of the two, and the one grid built
\* at the start of the call; neither changes once set.
C18_ModeAndGridFixedPerCall ==
  /\ [](\A i \in 1..Len(d_log) :
          /\ d_log[i].fn = SelectResidualFn(d_in.solve_mode)
          /\ d_log[i].fn \in {"get_residual_mach_inlet", "get_residual_mach_critical"}
          /\ d_log[i].fn = d_log[1].fn
          /\ d_log[i].x = d_grid.x
          /\ d_log[i].x = d_log[1].x)
  /\ [][/\ d_fn # "none" => d_fn' = d_fn
        /\ d_grid # NoGrid => d_grid' = d_grid]_vars

C18_Witness ==
  /\ d_pc = "returned"
  /\ Len(d_log) = 2
  /\ d_log[1].stage = "warmup"
  /\ d_log[2].stage = "main"
  /\ d_log[2].fn = "get_residual_mach_inlet"
  /\ Len(d_log[2].x) = 4

(***************************************************************************)
(* Claims about repeated calls (specification SpecTwice).                  *)
(***************************************************************************)
SecondCallFinished == d_first # NoFirst /\ d_pc \in {"returned", "raised"}

SameArguments(e, f) ==
  /\ e.stage = f.stage
  /\ e.fn = f.fn
  /\ e.x = f.x
  /\ e.solver = f.solver
  /\ e.y0 = f.y0

\* the solver library and the physics behind the residual are deterministic:
\* invoked with the same arguments in the two calls they gave the same answer
BackendDeterministic ==
  \A i \in 1..Len(d_first.log), j \in 1..Len(d_log) :
    SameArguments(d_first.log[i], d_log[j])
      => /\ d_first.log[i].result = d_log[j].result
         /\ d_first.log[i].value = d_log[j].value

\* C17: with a deterministic backend, a second call with the same arguments
\* ends at the same place, with the same grid, residual function, solvers,
\* solver invocations and outcome as the first: nothing it does depends on
\* the earlier call or on state outside its arguments.
C17_SameInputsSameOutputs ==
  (SecondCallFinished /\ BackendDeterministic) => CallRecord = d_first

C17_Witness ==
  /\ SecondCallFinished
  /\ BackendDeterministic
  /\ d_pc = "returned"
  /\ Len(d_log) = 2
  /\ d_log[1].value # d_in.initial_guess
  /\ d_out.evaluated_at = 2
  /\ d_first.out.kind = "returned"

(***************************************************************************)
(* Claims about the Newton search (specification SpecNewton).              *)
(***************************************************************************)
\* C19: the Newton search runs a fixed number of iterations: it never ends
\* before newton_steps iterations were made, and it never raises.
C19_FixedIterationCount ==
  /\ n_pc # "raised"
  /\ n_pc = "done" => n_steps = n_in.max_steps

\* the cubic 3 c^2 - 2 c^3 of the clipped ramp c between Ma_start and Ma_high
CubicOfRamp(M, args) ==
  LET c == Clip(FDiv(FSub(M, Ma_start), FSub(args.Ma_high, Ma_start)), Zero, One)
  IN  FSub(FMul(Q(3, 1), FMul(c, c)), FMul(Two, FMul(c, FMul(c, c))))

\* the weight is in [0, 1], non-decreasing in M, and inside the window the
\* blended value is (1 - w) * linear + w * true
WeightAndBlendShape ==
  /\ \A M \in MarchMach :
       /\ FLe(Zero, BlendWeight(M, m_in))
       /\ FLe(BlendWeight(M, m_in), One)
       /\ BlendWeight(M, m_in) = CubicOfRamp(M, m_in)
  /\ \A M1 \in MarchMach, M2 \in MarchMach :
       FLe(M1, M2)
         => FLe(Zero, FSub(BlendWeight(M2, m_in), BlendWeight(M1, m_in)))
  /\ (MarchEvaluated /\ m_eval.in_window)
       => /\ m_eval.w = BlendWeight(m_eval.Ma, m_in)
          /\ \A i \in 1..3 :
               m_eval.rhs_blend[i]
                 = FAdd(FMul(FSub(One, m_eval.w), m_eval.rhs_lin[i]),
                        FMul(m_eval.w, m_eval.rhs[i]))

\* C21 (as stated): the weight is in [0, 1] and non-decreasing in M, the
\* blend is (1 - w) * linear + w * true, and the blended value equals the
\* true right-hand side both at M = Ma_low and at M = Ma_high.
C21_NoJumpAtEitherEdge ==
  m_pc # "pass1"
    => /\ WeightAndBlendShape
       /\ (MarchEvaluated /\ (m_eval.Ma = m_in.Ma_low \/ m_eval.Ma = m_in.Ma_high))
            => m_eval.rhs_blend = m_eval.rhs

\* C21 (amended): weight and blend as stated; at M = Ma_high the weight is 1
\* and the blended value is the true right-hand side; for M <= 1.001, so at
\* M = Ma_low, the weight is 0 and the blended value is the linear
\* approximation, which is the true right-hand side at the expansion point
\* (x_crit, y_crit), where it is f_star.
C21_LinearAtLowerEdge ==
  m_pc # "pass1"
    => /\ WeightAndBlendShape
       /\ \A M \in MarchMach : FLe(M, Ma_start) => BlendWeight(M, m_in) = Zero
       /\ (MarchEvaluated /\ m_eval.Ma = m_in.Ma_high)
            => (m_eval.w = One /\ m_eval.rhs_blend = m_eval.rhs)
       /\ (MarchEvaluated /\ m_eval.Ma = m_in.Ma_low)
            => /\ m_eval.w = Zero
               /\ m_eval.rhs_blend = m_eval.rhs_lin
               /\ (m_eval.t = m_lin.x /\ m_eval.y = m_lin.y)
                    => m_eval.rhs_blend = m_eval.rhs

C21_Witness ==
  /\ MarchEvaluated
  /\ m_eval.Ma = m_in.Ma_low
  /\ m_eval.in_window
  /\ m_eval.rhs_blend = m_eval.rhs_lin
  /\ m_eval.rhs_blend # m_eval.rhs

(***************************************************************************)
(* Claims about initialize_flowfield (specification SpecGuess).            *)
(***************************************************************************)
GuessReturned == f_pc = "returned"

\* C22: initialize_flowfield makes exactly two backend queries, a scalar one
\* for the inlet stagnation state with the density+pressure pair and a
\* vectorized one with the enthalpy+entropy pair, and the first passes
\* density = d0_in, then pressure = p0_in, the argument order
\* compute_static_state uses for the same pair.
C22_StagnationQueryDensityFirst ==
  GuessReturned
    => /\ Len(f_queries) = 2
       /\ f_queries[1].shape = <<>>
       /\ f_queries[2].pair = "HmassSmass_INPUTS"
       /\ f_queries[2].shape = <<f_in.num_points + 1>>
       /\ f_queries[1] = compute_static_state_query(f_in.p0_in, f_in.d0_in,
                                                     f_queries[1].answer)

\* the backend's density and pressure answers, one after the other, aligned
\* with the logarithm entries of the returned guess
BackendValuesInOrder == f_queries[2].answer.rho \o f_queries[2].answer.p

\* the log-density and log-pressure entries of the returned guess
LogEntries == SubSeq(f_z, f_in.num_points + 2, Len(f_z))

\* C24 (as stated): whatever density and pressure values the backend returns,
\* the values passed to the logarithm are at least the floor and every
\* log-density and log-pressure entry of the initial guess is finite.
C24_EveryLogEntryFinite ==
  GuessReturned
    => \A i \in 1..Len(LogEntries) :
         /\ FLe(LogFloor, floor_values(BackendValuesInOrder)[i])
         /\ IsFinite(LogEntries[i])

\* C24 (amended): the logarithm is never taken of a non-positive number; for
\* every backend value that is not NaN (zero and negative included) the value
\* passed to the logarithm is at least the floor and the entry is at least the
\* floor's logarithm, finite when the backend value is finite; a NaN answer
\* passes through the floor and gives a NaN entry, +inf gives +inf.
C24_FlooredUnlessNaN ==
  GuessReturned
    => /\ Len(LogEntries) = Len(BackendValuesInOrder)
       /\ \A i \in 1..Len(LogEntries) :
            LET b == BackendValuesInOrder[i]
                v == floor_values(BackendValuesInOrder)[i]
            IN  /\ LogEntries[i] = FLog(v)
                /\ IsNaN(v) \/ FLe(LogFloor, v)
                /\ ~IsNaN(b) => (FLe(LogFloor, v) /\ FLe(FLog(LogFloor), LogEntries[i]))
                /\ IsFinite(b) => IsFinite(LogEntries[i])
                /\ IsNaN(b) => IsNaN(LogEntries[i])
                /\ b = PInf => LogEntries[i] = PInf

C24_Witness ==
  /\ GuessReturned
  /\ \E i \in 1..(f_in.num_points + 1) :
       /\ f_queries[2].answer.rho[i] = Zero
       /\ FLt(f_queries[2].answer.p[i], Zero)
       /\ LogEntries[i] = FLog(LogFloor)
       /\ LogEntries[f_in.num_points + 1 + i] = FLog(LogFloor)
       /\ IsFinite(LogEntries[i])

\* the solve started from the returned guess has built its grid
SolveStarted == r_in.N > 0

\* C25: for num_points >= 1 the guess returned by initialize_flowfield has
\* length 3 * (num_points + 1), three times the number of nodes the solve
\* builds from the same num_points; split_z then yields three blocks of one
\* entry per node, and both residuals have the length of the state.
C25_GuessFitsGrid ==
  /\ GuessReturned
       => /\ Len(f_z) = 3 * (f_in.num_points + 1)
          /\ Len(f_z) = 3 * Len(chebyshev_lobatto_basis(f_in.num_points, Zero, One).x)
  /\ SolveStarted
       => /\ r_in.z = f_z
          /\ Len(r_in.z) = 3 * Len(r_in.x)
          /\ LET s == split_z(r_in.z, Len(r_in.x))
             IN  /\ Len(s.u) = Len(r_in.x)
                 /\ Len(s.ln_d) = Len(r_in.x)
                 /\ Len(s.ln_p) = Len(r_in.x)
                 /\ s.u \o s.ln_d \o s.ln_p = r_in.z
          /\ r_inlet # <<>> => Len(r_inlet) = Len(r_in.z)
          /\ r_crit # <<>> => Len(r_crit) = Len(r_in.z)

C25_Witness ==
  /\ SolveStarted
  /\ f_in.num_points = 2
  /\ Len(r_in.x) = 3
  /\ r_inlet # <<>>
  /\ r_crit # <<>>
  /\ Len(r_inlet) = 9
  /\ Len(r_crit) = Len(f_z)

====
